---- MODULE Spec2Model ----
(***************************************************************************)
(* State-machine model of steemdata-mongo: the operation ingestor          *)
(* (scraper.py scrape_operations), the block ingestor (insert_blocks),     *)
(* the account projector and history backfiller (methods.py) and the       *)
(* post-processing pipeline (scraper.py post_processing).                  *)
(***************************************************************************)
EXTENDS Bags, FiniteSets, Integers, Sequences, TLC

VARIABLES
    chain,          \* the ledger's operation feed, in ascending block order
    Operations,     \* mongo.Operations, a bag of documents
    checkpoint,     \* Indexer: stream name -> cursor
    ing_pc,         \* per ingestor: position inside scrape_operations
    last_block,     \* per ingestor: local variable last_block
    ing_pos,        \* per ingestor: index in chain of the operation in hand
    last_insert,    \* per ingestor: outcome of its latest insert_one
    Blockchain,     \* mongo.db['Blockchain'], documents unique on block_id
    full_blocks,    \* insert_blocks: the blocks handed to the current call
    blk_pos,        \* insert_blocks: index of the block in hand
    blk_pc,         \* insert_blocks: "idle", "running" or "raised"
    Accounts,       \* mongo.Accounts, documents unique on name
    AccountOperations, \* mongo.AccountOperations, unique on (account, index)
    hist_len,       \* ledger: number of history events of each account
    ledger_meta,    \* ledger: json_metadata of each account's snapshot
    call,           \* the latest projector / backfiller call and what it did
    head,           \* ledger: head_block_number
    pp_pc,          \* post_processing: position, or how the last run ended
    pp_batch_size,  \* post_processing: parameter batch_size
    pp_start_block, \* post_processing: local start_block
    pp_results,     \* post_processing: local results
    pp_batch_items, \* post_processing: local batch_items
    pp_calls,       \* post_processing: the refresh calls of the fan-out
    rw_pc,          \* run_worker, per worker: position in the loop
    rw_outcome,     \* run_worker, per worker: how the last invocation ended
    rw_invoked,     \* run_worker, per worker: invocations so far (saturating)
    op_in,          \* parse_operation: the operation handed in
    parsed,         \* parse_operation: what the call returned
    lib,            \* ledger: last_irreversible_block_num
    sb_pc,          \* scrape_blockchain: position
    sb_missing      \* scrape_blockchain: block numbers still to fetch in batches

ingVars == <<ing_pc, last_block, ing_pos, last_insert>>

blkVars == <<Blockchain, full_blocks, blk_pos, blk_pc>>

accVars == <<Accounts, AccountOperations, hist_len, ledger_meta, call>>

ppVars == <<head, pp_pc, pp_batch_size, pp_start_block, pp_results,
            pp_batch_items, pp_calls>>

rwVars == <<rw_pc, rw_outcome, rw_invoked>>

clVars == <<op_in, parsed>>

sbVars == <<lib, sb_pc, sb_missing>>

vars == <<chain, Operations, checkpoint, ingVars, blkVars, accVars, ppVars,
          rwVars, clVars, sbVars>>

\* what the operation ingestor never touches
notIngestor == <<chain, blkVars, accVars, ppVars, rwVars, clVars, sbVars>>

\* what the block ingestor never touches
notBlocks == <<chain, Operations, checkpoint, ingVars, accVars, ppVars,
              rwVars, clVars, sbVars>>

\* what the account projector and the backfiller never touch
notAccounts == <<chain, Operations, checkpoint, ingVars, blkVars, ppVars,
                rwVars, clVars, sbVars>>

\* what run_worker never touches
notWorker == <<chain, Operations, checkpoint, ingVars, blkVars, accVars, ppVars,
              clVars, sbVars>>

\* what parse_operation never touches
notClassify == <<chain, Operations, checkpoint, ingVars, blkVars, accVars,
                ppVars, rwVars, sbVars>>

\* what scrape_blockchain never touches besides the state of insert_blocks
notChain == <<chain, Operations, checkpoint, ingVars, accVars, ppVars, rwVars,
             clVars>>

\* what post_processing never touches
notPost == <<chain, Operations, ingVars, blkVars, hist_len, ledger_meta, call,
            rwVars, clVars, sbVars>>

----------------------------------------------------------------------------
(* Bounds *)

MaxBlock == 3          \* blocks 1..MaxBlock carry operations
MaxOpsPerBlock == 2    \* operations per block: 0..MaxOpsPerBlock
RaceBlocks == 2        \* blocks with operations when two ingestors race
MaxHeight == 3         \* ledger blocks offered to insert_blocks: 1..MaxHeight
MaxInput == 2          \* longest block list handed to one insert_blocks call
MaxHistory == 3        \* history events per account on the ledger: 0..MaxHistory
SmallBatch == 1        \* a batch_size small enough to cut a history short
MaxRpcFailures == 1    \* ledger calls that fail in one fan-out
PostBlocks == 2        \* blocks with operations when post_processing runs
SmallRange == 1        \* a batch_size smaller than the stored block range
MaxInvocations == 2    \* invocations counted per worker, the count saturates
MaxAuths == 2          \* longest required-authority list of a custom operation

----------------------------------------------------------------------------
(* Generic helpers *)

Range(s) == {s[i] : i \in 1..Len(s)}

Max(S) == CHOOSE m \in S : \A x \in S : x <= m

Min2(a, b) == IF a <= b THEN a ELSE b

\* d[k] = v on a Python dict
Put(d, k, v) == [f \in DOMAIN d \cup {k} |-> IF f = k THEN v ELSE d[f]]

RECURSIVE FlattenBlocks(_, _)
\* operations of blocks b..MaxBlock, counts[b] of them per block, in order
FlattenBlocks(counts, b) ==
    IF b > MaxBlock THEN <<>>
    ELSE [i \in 1..counts[b] |->
             [block_num |-> b, op_in_trx |-> i, type |-> "vote",
              voter |-> "alice"]]
         \o FlattenBlocks(counts, b + 1)

----------------------------------------------------------------------------
(* Store primitives *)

\* unique key of an Operations document
OpKey(doc) == <<doc.block_num, doc.op_in_trx>>

HasOpKey(coll, doc) == \E d \in BagToSet(coll) : OpKey(d) = OpKey(doc)

\* insert_one: "ok" and the document is added, or DuplicateKeyError
insert_one_result(coll, doc) ==
    IF HasOpKey(coll, doc) THEN "DuplicateKeyError" ELSE "ok"

insert_one(coll, doc) ==
    IF HasOpKey(coll, doc) THEN coll ELSE coll (+) SetToBag({doc})

get_checkpoint(cp, name) == cp[name]

set_checkpoint(cp, name, value) == [cp EXCEPT ![name] = value]

----------------------------------------------------------------------------
(* Ledger: blockchain.history(start_block) *)

\* variant: the stream opened at the first block whatever the cursor
history_from_genesis(feed, start_block) == 1

\* index in the feed of the first operation with block_num >= start_block
history(feed, start_block) ==
    IF \E i \in 1..Len(feed) : feed[i].block_num >= start_block
    THEN CHOOSE i \in 1..Len(feed) :
            /\ feed[i].block_num >= start_block
            /\ \A j \in 1..(i - 1) : feed[j].block_num < start_block
    ELSE Len(feed) + 1

----------------------------------------------------------------------------
(* scrape_operations, one ingestor process p *)

Workers == {"w1", "w2"}

\* lines 52-59: read the checkpoint and open the stream
scrape_operations_start(p) ==
    /\ ing_pc[p] = "start"
    /\ last_block' = [last_block EXCEPT ![p] =
                          get_checkpoint(checkpoint, "operations")]
    /\ ing_pos' = [ing_pos EXCEPT ![p] =
                       history(chain, get_checkpoint(checkpoint, "operations"))]
    /\ ing_pc' = [ing_pc EXCEPT ![p] = "loop"]
    /\ UNCHANGED <<notIngestor, Operations, checkpoint, last_insert>>

\* variant: the insert without suppress(DuplicateKeyError)
scrape_operations_insert_nosuppress(p) ==
    /\ ing_pc[p] = "loop"
    /\ ing_pos[p] <= Len(chain)
    /\ LET operation == chain[ing_pos[p]] IN
         /\ last_insert' = [last_insert EXCEPT ![p] =
                IF insert_one_result(Operations, operation) = "ok"
                THEN "inserted" ELSE "duplicate"]
         /\ Operations' = insert_one(Operations, operation)
         /\ ing_pc' = [ing_pc EXCEPT ![p] =
                IF insert_one_result(Operations, operation) = "ok"
                THEN "check" ELSE "raised"]
    /\ UNCHANGED <<notIngestor, checkpoint, last_block, ing_pos>>

\* lines 60-64: next operation of the stream, insert with suppress(DuplicateKeyError)
scrape_operations_insert(p) ==
    /\ ing_pc[p] = "loop"
    /\ ing_pos[p] <= Len(chain)
    /\ LET operation == chain[ing_pos[p]] IN
         /\ last_insert' = [last_insert EXCEPT ![p] =
                IF insert_one_result(Operations, operation) = "ok"
                THEN "inserted" ELSE "duplicate"]
         /\ Operations' = insert_one(Operations, operation)
    /\ ing_pc' = [ing_pc EXCEPT ![p] = "check"]
    /\ UNCHANGED <<notIngestor, checkpoint, last_block, ing_pos>>

\* variant: the checkpoint written without the one-block lag
scrape_operations_checkpoint_nolag(p) ==
    /\ ing_pc[p] = "check"
    /\ LET operation == chain[ing_pos[p]] IN
         IF operation.block_num # last_block[p]
         THEN /\ last_block' = [last_block EXCEPT ![p] = operation.block_num]
              /\ checkpoint' = set_checkpoint(checkpoint, "operations",
                                              operation.block_num)
         ELSE UNCHANGED <<last_block, checkpoint>>
    /\ ing_pos' = [ing_pos EXCEPT ![p] = @ + 1]
    /\ ing_pc' = [ing_pc EXCEPT ![p] = "loop"]
    /\ UNCHANGED <<notIngestor, Operations, last_insert>>

\* lines 67-69: on a new block, move the checkpoint
scrape_operations_checkpoint(p) ==
    /\ ing_pc[p] = "check"
    /\ LET operation == chain[ing_pos[p]] IN
         IF operation.block_num # last_block[p]
         THEN /\ last_block' = [last_block EXCEPT ![p] = operation.block_num]
              /\ checkpoint' = set_checkpoint(checkpoint, "operations",
                                              operation.block_num - 1)
         ELSE UNCHANGED <<last_block, checkpoint>>
    /\ ing_pos' = [ing_pos EXCEPT ![p] = @ + 1]
    /\ ing_pc' = [ing_pc EXCEPT ![p] = "loop"]
    /\ UNCHANGED <<notIngestor, Operations, last_insert>>

\* the process dies or an exception leaves scrape_operations; run_worker
\* (runner.py 22-39) calls it again
scrape_operations_crash(p) ==
    /\ ing_pc[p] \in {"loop", "check", "raised"}
    /\ ing_pc' = [ing_pc EXCEPT ![p] = "start"]
    /\ UNCHANGED <<notIngestor, Operations, checkpoint,
                   last_block, ing_pos, last_insert>>

----------------------------------------------------------------------------
(* Blocks: block ids are hex strings whose leading digits hold the number *)

HexPrefix == 8

RECURSIVE IntFromHex(_)
\* int(s, base=16) on a sequence of hex digits
IntFromHex(s) ==
    IF s = <<>> THEN 0
    ELSE IntFromHex(SubSeq(s, 1, Len(s) - 1)) * 16 + s[Len(s)]

\* the ledger's id of block n on branch s: number in the leading digits,
\* then the rest of the hash
LedgerBlockId(n, s) ==
    [i \in 1..HexPrefix |-> (n \div (16 ^ (HexPrefix - i))) % 16] \o <<s>>

\* a block as the ledger returns it, with or without its block_num
LedgerBlock(n, s, numbered) ==
    LET base == [block_id |-> LedgerBlockId(n, s),
                 previous |-> LedgerBlockId(n - 1, IF n = 1 THEN 0 ELSE s)]
    IN IF numbered THEN [f \in DOMAIN base \cup {"block_num"} |->
                            IF f = "block_num" THEN n ELSE base[f]]
       ELSE base

LedgerBlocks ==
    {LedgerBlock(n, s, numbered) :
        n \in 1..MaxHeight, s \in 0..1, numbered \in BOOLEAN}

BlockInputs ==
    UNION {[1..k -> LedgerBlocks] : k \in 1..MaxInput}

\* block.get('block_num') is falsy
LacksBlockNum(block) ==
    "block_num" \notin DOMAIN block \/ block.block_num = 0

\* lines 201-202: the block with its block_num filled in
WithBlockNum(block) ==
    IF LacksBlockNum(block)
    THEN [f \in DOMAIN block \cup {"block_num"} |->
             IF f = "block_num"
             THEN IntFromHex(SubSeq(block.block_id, 1, HexPrefix))
             ELSE block[f]]
    ELSE block

block_id_exists(coll, block_id) == \E d \in coll : d.block_id = block_id

\* insert_one on Blockchain under suppress(DuplicateKeyError)
insert_block_suppressed(coll, block) ==
    IF block_id_exists(coll, block.block_id) THEN coll ELSE coll \cup {block}

\* a call of insert_blocks with some list of ledger blocks
insert_blocks_call ==
    /\ blk_pc = "idle"
    /\ \E input \in BlockInputs : full_blocks' = input
    /\ blk_pos' = 1
    /\ blk_pc' = "running"
    /\ UNCHANGED <<notBlocks, Blockchain>>

\* variant: the loop body with the assertion compiled out
insert_blocks_step_noassert ==
    /\ blk_pc = "running"
    /\ blk_pos <= Len(full_blocks)
    /\ LET block == WithBlockNum(full_blocks[blk_pos]) IN
         /\ Blockchain' = insert_block_suppressed(Blockchain, block)
         /\ blk_pos' = blk_pos + 1
         /\ blk_pc' = "running"
    /\ UNCHANGED <<notBlocks, full_blocks>>

\* lines 200-209: one iteration of the loop of insert_blocks
insert_blocks_step ==
    /\ blk_pc = "running"
    /\ blk_pos <= Len(full_blocks)
    /\ LET block == WithBlockNum(full_blocks[blk_pos]) IN
         IF block.block_num > 1 /\ ~block_id_exists(Blockchain, block.previous)
         THEN \* AssertionError 'Missing Previous Block'
              /\ blk_pc' = "raised"
              /\ UNCHANGED <<Blockchain, blk_pos>>
         ELSE /\ Blockchain' = insert_block_suppressed(Blockchain, block)
              /\ blk_pos' = blk_pos + 1
              /\ blk_pc' = "running"
    /\ UNCHANGED <<notBlocks, full_blocks>>

\* line 200: the input is exhausted, insert_blocks returns
insert_blocks_return ==
    /\ blk_pc = "running"
    /\ blk_pos > Len(full_blocks)
    /\ blk_pc' = "idle"
    /\ full_blocks' = <<>>
    /\ blk_pos' = 1
    /\ UNCHANGED <<notBlocks, Blockchain>>

\* the AssertionError has left insert_blocks and reached its caller
insert_blocks_unwind ==
    /\ blk_pc = "raised"
    /\ blk_pc' = "idle"
    /\ full_blocks' = <<>>
    /\ blk_pos' = 1
    /\ UNCHANGED <<notBlocks, Blockchain>>

InitBlocksIdle ==
    /\ Blockchain = {}
    /\ full_blocks = <<>>
    /\ blk_pos = 1
    /\ blk_pc = "idle"

----------------------------------------------------------------------------
(* Accounts: the tracked set, the ledger's snapshots, the store's update *)

Users == {"alice", "bob", "carol"}

\* accounts.myAccounts(): the tracked-account allow-list
myAccounts == {"alice", "bob"}

\* json_metadata of a snapshot: a plain string, a clean dict, a dict with
\* dotted keys, a dict the store rejects even without dots, the empty dict
MetadataKinds == {"text", "dict", "dotted", "rejected", "empty"}

IsDict(m) == m \in {"dict", "dotted", "rejected", "empty"}

\* utils.strip_dot_from_keys on a metadata dict
strip_dot_from_keys(m) == IF m = "dotted" THEN "dict" ELSE m

\* typify(Account(username).export(load_extras=load_extras))
export(username, m, load_extras) ==
    LET base == [name |-> username, balance |-> "balance",
                 json_metadata |-> m]
    IN IF load_extras THEN Put(base, "followers", "loaded") ELSE base

\* the fields an update document writes
WrittenFields(doc) == IF "$set" \in DOMAIN doc THEN doc["$set"] ELSE doc

\* the store refuses the document with a WriteError: update operators mixed
\* with plain fields, or a metadata dict it cannot store
Refused(doc) ==
    \/ "$set" \in DOMAIN doc /\ DOMAIN doc # {"$set"}
    \/ /\ "json_metadata" \in DOMAIN WrittenFields(doc)
       /\ WrittenFields(doc).json_metadata = "rejected"

\* mongo.Accounts.update({'name': name}, doc, upsert=True), accepted
update_upsert(coll, name, doc) ==
    LET old == {d \in coll : d.name = name}
        prior == IF old = {} THEN [name |-> name] ELSE CHOOSE d \in old : TRUE
        merged == [f \in DOMAIN prior \cup DOMAIN doc["$set"] |->
                      IF f \in DOMAIN doc["$set"] THEN doc["$set"][f]
                      ELSE prior[f]]
    IN (coll \ old) \cup {IF "$set" \in DOMAIN doc THEN merged ELSE doc}

\* line 51: account['json_metadata'] = {}
retry_document(account) == Put(account, "json_metadata", "empty")

\* lines 35-53: update_account on a store coll; rpc_ok: Account(username)
\* answered; faults: the write attempts that fail for another reason
update_account_run(coll, username, load_extras, m, rpc_ok, faults) ==
    IF ~rpc_ok
    THEN [coll |-> coll, writes |-> <<>>, results |-> <<>>, raised |-> TRUE]
    ELSE IF username \notin myAccounts
    THEN [coll |-> coll, writes |-> <<>>, results |-> <<>>, raised |-> FALSE]
    ELSE
    LET fetched == Put(Put(export(username, m, load_extras),
                           "account", username), "updatedAt", "utcnow")
        clean == IF IsDict(fetched.json_metadata)
                 THEN Put(fetched, "json_metadata",
                          strip_dot_from_keys(fetched.json_metadata))
                 ELSE fetched
        account == IF ~load_extras THEN [x \in {"$set"} |-> clean] ELSE clean
        retry == retry_document(account)
    IN IF ~(1 \in faults \/ Refused(account))
       THEN [coll |-> update_upsert(coll, username, account),
             writes |-> <<account>>, results |-> <<"ok">>, raised |-> FALSE]
       ELSE IF ~(2 \in faults \/ Refused(retry))
       THEN [coll |-> update_upsert(coll, username, retry),
             writes |-> <<account, retry>>,
             results |-> <<"WriteError", "ok">>, raised |-> FALSE]
       ELSE [coll |-> coll, writes |-> <<account, retry>>,
             results |-> <<"WriteError", "WriteError">>, raised |-> TRUE]

\* lines 26-53
update_account(username, load_extras) ==
    \E rpc_ok \in BOOLEAN, faults \in SUBSET {1, 2} :
        LET run == update_account_run(Accounts, username, load_extras,
                                      ledger_meta[username], rpc_ok, faults)
        IN /\ Accounts' = run.coll
           /\ call' = [fn |-> "update_account", username |-> username,
                       load_extras |-> load_extras, writes |-> run.writes,
                       results |-> run.results, raised |-> run.raised]
           /\ UNCHANGED <<notAccounts, AccountOperations, hist_len, ledger_meta>>

----------------------------------------------------------------------------
(* History backfill *)

\* the event documents of the given indices of one account
EventDocs(username, indices) ==
    {[account |-> username, index |-> i] : i \in indices}

\* Account(username).history(): indices 0, 1, ... in ascending order
history_forward(n) == [k \in 1..n |-> k - 1]

\* Account(username).history_reverse(): latest event first
history_reverse(n) == [k \in 1..n |-> n - k]

\* funcy.take
take(n, seq) == SubSeq(seq, 1, Min2(n, Len(seq)))

\* variant: update_account_ops without the tracked-account test
update_account_ops_unguarded(username) ==
    /\ AccountOperations' = AccountOperations \cup
           EventDocs(username, Range(history_forward(hist_len[username])))
    /\ call' = [fn |-> "update_account_ops", username |-> username,
                attempted |-> history_forward(hist_len[username])]
    /\ UNCHANGED <<notAccounts, Accounts, hist_len, ledger_meta>>

\* lines 56-62
update_account_ops(username) ==
    LET events == IF username \in myAccounts
                  THEN history_forward(hist_len[username]) ELSE <<>>
    IN /\ AccountOperations' = AccountOperations \cup
              EventDocs(username, Range(events))
       /\ call' = [fn |-> "update_account_ops", username |-> username,
                   attempted |-> events]
       /\ UNCHANGED <<notAccounts, Accounts, hist_len, ledger_meta>>

\* lines 65-76
account_operations_index(coll, username) ==
    LET highest_index == {d \in coll : d.account = username}
    IN IF highest_index # {}
       THEN Max({d.index : d \in highest_index})
       ELSE 0

RECURSIVE quick_loop_skip_known(_, _)
\* variant: the loop stops at the first index not above start_index
quick_loop_skip_known(events, start_index) ==
    IF events = <<>> THEN <<>>
    ELSE IF Head(events) <= start_index THEN <<>>
    ELSE <<Head(events)>> \o quick_loop_skip_known(Tail(events), start_index)

RECURSIVE quick_loop(_, _)
\* lines 88-92: the indices insert_one is called with, in order
quick_loop(events, start_index) ==
    IF events = <<>> THEN <<>>
    ELSE IF Head(events) < start_index THEN <<>>
    ELSE <<Head(events)>> \o quick_loop(Tail(events), start_index)

\* lines 79-92 on a store coll: the indices tried and the index the loop
\* returned at (-1 when the loop ran to its end)
update_account_ops_quick_run(coll, username, n, batch_size) ==
    LET start_index == account_operations_index(coll, username)
        events == IF username \in myAccounts
                  THEN take(batch_size, history_reverse(n)) ELSE <<>>
        attempted == quick_loop(events, start_index)
    IN [coll |-> coll \cup EventDocs(username, Range(attempted)),
        attempted |-> attempted,
        returned_at |-> IF Len(attempted) < Len(events)
                        THEN events[Len(attempted) + 1] ELSE -1]

\* lines 79-92
update_account_ops_quick(username, batch_size) ==
    LET run == update_account_ops_quick_run(AccountOperations, username,
                                            hist_len[username], batch_size)
    IN /\ AccountOperations' = run.coll
       /\ call' = [fn |-> "update_account_ops_quick", username |-> username,
                   batch_size |-> batch_size, attempted |-> run.attempted,
                   returned_at |-> run.returned_at]
       /\ UNCHANGED <<notAccounts, Accounts, hist_len, ledger_meta>>

\* default of the batch_size parameter of update_account_ops_quick
QuickBatchSize == 200

\* ledger: one more event in an account's history
ledger_history_append(username) ==
    /\ hist_len[username] < MaxHistory
    /\ hist_len' = [hist_len EXCEPT ![username] = @ + 1]
    /\ UNCHANGED <<notAccounts, Accounts, AccountOperations, ledger_meta, call>>

\* ledger: an account's profile metadata is rewritten
ledger_metadata_change(username) ==
    /\ \E m \in MetadataKinds \ {ledger_meta[username]} :
          ledger_meta' = [ledger_meta EXCEPT ![username] = m]
    /\ UNCHANGED <<notAccounts, Accounts, AccountOperations, hist_len, call>>

InitAccountsIdle ==
    /\ Accounts = {}
    /\ AccountOperations = {}
    /\ hist_len = [u \in Users |-> 0]
    /\ ledger_meta = [u \in Users |-> "dict"]
    /\ call = [fn |-> "none"]

----------------------------------------------------------------------------
(* parse_operation *)

\* Python None, as returned by funcy.first on an empty list
None == "None"

\* op.get(key, default)
Get(op, key, default) == IF key \in DOMAIN op THEN op[key] ELSE default

\* steem.utils.keep_in_dict(op, keys).values()
keep_in_dict_values(op, keys) == {op[k] : k \in keys \cap DOMAIN op}

\* funcy.first
first(seq) == IF Len(seq) = 0 THEN None ELSE seq[1]

\* what parse_operation returns, or that it raised
Obligations(light, full) ==
    [accounts |-> full, accounts_light |-> light, raised |-> FALSE]

Raised == [accounts |-> {}, accounts_light |-> {}, raised |-> TRUE]

\* variant: the accounts of a rule go to the full set
LightFrom_as_full(op, keys) ==
    IF keys \subseteq DOMAIN op
    THEN Obligations({}, {op[k] : k \in keys})
    ELSE Raised

\* light.add(op[k]) for each k of keys: KeyError when a key is missing
LightFrom(op, keys) ==
    IF keys \subseteq DOMAIN op
    THEN Obligations({op[k] : k \in keys}, {})
    ELSE Raised

\* variant: op_type in [...]
str_in_list(op_type, types) == op_type \in types

\* lines 151-157: op_type == [...], a str compared with a list
str_eq_list(op_type, types) == FALSE

\* lines 117-118
account_from_auths(op) ==
    first(Get(op, "required_auths", Get(op, "required_posting_auths", None)))

\* lines 104-222
parse_operation(op) ==
    LET op_type == op.type IN
    IF op_type \in {"account_create", "account_create_with_delegation"}
    THEN IF {"creator", "new_account_name"} \subseteq DOMAIN op
         THEN Obligations({op.creator}, {op.new_account_name})
         ELSE Raised
    ELSE IF op_type \in {"account_update", "withdraw_vesting",
                         "claim_reward_balance", "return_vesting_delegation",
                         "account_witness_vote"}
    THEN LightFrom(op, {"account"})
    ELSE IF op_type = "account_witness_proxy"
    THEN LightFrom(op, {"account", "proxy"})
    ELSE IF op_type \in {"author_reward", "comment"}
    THEN LightFrom(op, {"author"})
    ELSE IF op_type = "vote"
    THEN LightFrom(op, {"voter"})
    ELSE IF op_type = "cancel_transfer_from_savings"
    THEN LightFrom(op, {"from"})
    ELSE IF op_type = "change_recovery_account"
    THEN LightFrom(op, {"account_to_recover"})
    ELSE IF op_type = "comment_benefactor_reward"
    THEN LightFrom(op, {"benefactor"})
    ELSE IF str_eq_list(op_type, {"convert", "fill_convert_request",
                                  "interest", "limit_order_cancel",
                                  "limit_order_create", "shutdown_witness",
                                  "witness_update"})
    THEN LightFrom(op, {"owner"})
    ELSE IF op_type = "curation_reward"
    THEN LightFrom(op, {"curator"})
    ELSE IF op_type \in {"custom", "custom_json"}
    THEN IF {"required_auths", "required_posting_auths"} \cap DOMAIN op = {}
         THEN Raised    \* first(None): TypeError
         ELSE Obligations({account_from_auths(op)}, {})
    ELSE IF op_type = "delegate_vesting_shares"
    THEN LightFrom(op, {"delegator", "delegatee"})
    ELSE IF op_type = "delete_comment"
    THEN LightFrom(op, {"author"})
    ELSE IF op_type \in {"escrow_approve", "escrow_dispute",
                         "escrow_release", "escrow_transfer"}
    THEN Obligations(keep_in_dict_values(
             op, {"agent", "from", "to", "who", "receiver"}), {})
    ELSE IF op_type = "feed_publish"
    THEN LightFrom(op, {"publisher"})
    ELSE IF op_type = "fill_order"
    THEN LightFrom(op, {"open_owner", "current_owner"})
    ELSE IF op_type = "fill_vesting_withdraw"
    THEN LightFrom(op, {"to_account", "from_account"})
    ELSE IF op_type = "pow2"
    THEN IF "work" \in DOMAIN op
         THEN Obligations({op.work[2].input.worker_account}, {})
         ELSE Raised
    ELSE IF op_type \in {"recover_account", "request_account_recovery"}
    THEN LightFrom(op, {"account_to_recover"})
    ELSE IF op_type = "set_withdraw_vesting_route"
    THEN LightFrom(op, {"from_account", "to_account"})
    ELSE IF op_type \in {"transfer", "transfer_from_savings",
                         "transfer_to_savings", "transfer_to_vesting"}
    THEN Obligations(keep_in_dict_values(
             op, {"agent", "from", "to", "who", "receiver"}), {})
    ELSE Obligations({}, {})

\* the types named by a rule that can be taken (lines 120-149, 160-207)
TableTypes ==
    {"account_create", "account_create_with_delegation", "account_update",
     "withdraw_vesting", "claim_reward_balance", "return_vesting_delegation",
     "account_witness_vote", "account_witness_proxy", "author_reward",
     "comment", "vote", "cancel_transfer_from_savings",
     "change_recovery_account", "comment_benefactor_reward",
     "curation_reward", "custom", "custom_json", "delegate_vesting_shares",
     "delete_comment", "escrow_approve", "escrow_dispute", "escrow_release",
     "escrow_transfer", "feed_publish", "fill_order", "fill_vesting_withdraw",
     "pow2", "recover_account", "request_account_recovery",
     "set_withdraw_vesting_route", "transfer", "transfer_from_savings",
     "transfer_to_savings", "transfer_to_vesting"}

\* the types listed at lines 151-157
OwnerTypes ==
    {"convert", "fill_convert_request", "interest", "limit_order_cancel",
     "limit_order_create", "shutdown_witness", "witness_update"}

\* the account fields the ledger sends with an operation of a type
PayloadKeys(op_type) ==
    IF op_type \in {"account_create", "account_create_with_delegation"}
    THEN {"creator", "new_account_name"}
    ELSE IF op_type \in {"account_update", "withdraw_vesting",
                         "claim_reward_balance", "return_vesting_delegation",
                         "account_witness_vote"}
    THEN {"account"}
    ELSE IF op_type = "account_witness_proxy" THEN {"account", "proxy"}
    ELSE IF op_type \in {"author_reward", "comment", "delete_comment",
                         "comment_options"}
    THEN {"author"}
    ELSE IF op_type = "vote" THEN {"voter"}
    ELSE IF op_type = "cancel_transfer_from_savings" THEN {"from"}
    ELSE IF op_type \in {"change_recovery_account", "recover_account",
                         "request_account_recovery"}
    THEN {"account_to_recover"}
    ELSE IF op_type = "comment_benefactor_reward" THEN {"benefactor"}
    ELSE IF op_type \in OwnerTypes THEN {"owner"}
    ELSE IF op_type = "curation_reward" THEN {"curator"}
    ELSE IF op_type = "delegate_vesting_shares" THEN {"delegator", "delegatee"}
    ELSE IF op_type \in {"escrow_approve", "escrow_dispute"}
    THEN {"from", "to", "agent", "who"}
    ELSE IF op_type = "escrow_release"
    THEN {"from", "to", "agent", "who", "receiver"}
    ELSE IF op_type = "escrow_transfer" THEN {"from", "to", "agent"}
    ELSE IF op_type = "feed_publish" THEN {"publisher"}
    ELSE IF op_type = "fill_order" THEN {"open_owner", "current_owner"}
    ELSE IF op_type \in {"fill_vesting_withdraw", "set_withdraw_vesting_route"}
    THEN {"from_account", "to_account"}
    ELSE IF op_type \in {"transfer", "transfer_from_savings",
                         "transfer_to_savings", "transfer_to_vesting"}
    THEN {"from", "to"}
    ELSE {}

\* types of the ledger that no rule names
OtherTypes == {"comment_options", "producer_reward"}

\* required_auths / required_posting_auths: lists of up to MaxAuths accounts
AuthLists == UNION {[1..k -> Users] : k \in 0..MaxAuths}

\* custom and custom_json operations, each authority list given or left out
CustomOps ==
    {[type |-> t] @@ a @@ b :
        t \in {"custom", "custom_json"},
        a \in {[k \in {} |-> <<>>]}
              \cup {[required_auths |-> l] : l \in AuthLists},
        b \in {[k \in {} |-> <<>>]}
              \cup {[required_posting_auths |-> l] : l \in AuthLists}}

\* the operations parse_operation is applied to
OpInputs ==
    UNION {{[type |-> t] @@ f : f \in [PayloadKeys(t) -> Users]} :
              t \in (TableTypes \ {"custom", "custom_json", "pow2"})
                    \cup OwnerTypes \cup OtherTypes}
    \cup CustomOps
    \cup {[type |-> "pow2",
           work |-> <<"pow2", [input |-> [worker_account |-> u]]>>] :
             u \in Users}

\* a call of parse_operation(op_in): its result, marked as returned
parse_operation_call ==
    /\ ~parsed.called
    /\ parsed' = Put(parse_operation(op_in), "called", TRUE)
    /\ UNCHANGED <<notClassify, op_in>>

InitClassifyIdle ==
    /\ op_in = [type |-> "none"]
    /\ parsed = [called |-> FALSE]

----------------------------------------------------------------------------
(* post_processing *)

\* default of the batch_size parameter of post_processing
PostBatchSize == 100

\* variant: every block counts as recent
is_recent_always(block_num, days, head_block_num) == TRUE

\* lines 227-229, head_block_num being the ledger's head at the call
is_recent(block_num, days, head_block_num) ==
    block_num > head_block_num - 20 * 60 * 24 * days

\* variant: the query with $gte in place of $gt
find_operations_gte(coll, start_block, batch_size) ==
    {d \in BagToSet(coll) :
        d.block_num >= start_block /\ d.block_num <= start_block + batch_size}

\* lines 122-133: the stored operations of the block range
find_operations(coll, start_block, batch_size) ==
    {d \in BagToSet(coll) :
        d.block_num > start_block /\ d.block_num <= start_block + batch_size}

\* lines 142-145: merge_with(custom_merge, *batches); keep() drops None
merge_batches(batches) ==
    IF batches = {} THEN [k \in {} |-> {}]
    ELSE [accounts |-> UNION {b.accounts : b \in batches} \ {None},
          accounts_light |-> UNION {b.accounts_light : b \in batches} \ {None}]

\* utils.thread_multi: every call is made; a failed call ends the fan-out
\* with an exception only when re_raise_errors is set
thread_multi_raises(failed, re_raise_errors) ==
    re_raise_errors /\ failed # {}

RECURSIVE refresh_accounts(_, _, _)
\* the fan-out of update_account(mongo, u, load_extras=False) over the
\* accounts whose ledger snapshot could be fetched
refresh_accounts(coll, usernames, meta) ==
    IF usernames = {} THEN coll
    ELSE LET u == CHOOSE x \in usernames : TRUE
         IN refresh_accounts(
                update_account_run(coll, u, FALSE, meta[u], TRUE, {}).coll,
                usernames \ {u}, meta)

RECURSIVE backfill_accounts(_, _, _)
\* the fan-out of update_account_ops_quick(mongo, u) over the accounts
\* whose history could be fetched
backfill_accounts(coll, usernames, lens) ==
    IF usernames = {} THEN coll
    ELSE LET u == CHOOSE x \in usernames : TRUE
         IN backfill_accounts(
                update_account_ops_quick_run(coll, u, lens[u],
                                             QuickBatchSize).coll,
                usernames \ {u}, lens)

\* variant: the empty-batch edge case is not tested
post_processing_select_no_edge_case(batch_size) ==
    /\ pp_pc \in {"idle", "returned", "advanced", "raised"}
    /\ LET start_block == get_checkpoint(checkpoint, "post_processing")
           results == find_operations(Operations, start_block, batch_size)
       IN /\ pp_batch_size' = batch_size
          /\ pp_start_block' = start_block
          /\ pp_results' = results
          /\ pp_batch_items' = [k \in {} |-> {}]
          /\ pp_calls' = {}
          /\ pp_pc' = "selected"
    /\ UNCHANGED <<notPost, checkpoint, Accounts, AccountOperations, head>>

\* lines 119-139: read the checkpoint, select the batch, return when the
\* batch is empty close to the head
post_processing_select(batch_size) ==
    /\ pp_pc \in {"idle", "returned", "advanced", "raised"}
    /\ LET start_block == get_checkpoint(checkpoint, "post_processing")
           results == find_operations(Operations, start_block, batch_size)
       IN /\ pp_batch_size' = batch_size
          /\ pp_start_block' = start_block
          /\ pp_results' = results
          /\ pp_batch_items' = [k \in {} |-> {}]
          /\ pp_calls' = {}
          /\ pp_pc' = IF results = {} /\ is_recent(start_block, 1, head)
                      THEN "returned" ELSE "selected"
    /\ UNCHANGED <<notPost, checkpoint, Accounts, AccountOperations, head>>

\* lines 141-167 with the given re_raise_errors: classify, merge, and fan
\* out when the batch is recent
post_processing_fan_out(re_raise_errors) ==
    /\ pp_pc = "selected"
    /\ LET batches == {parse_operation(op) : op \in pp_results}
           batch_items == merge_batches(batches)
       IN
       IF \E b \in batches : b.raised
       THEN /\ pp_pc' = "raised"
            /\ UNCHANGED <<pp_batch_items, pp_calls, Accounts, AccountOperations>>
       ELSE
       /\ pp_batch_items' = batch_items
       /\ IF ~is_recent(pp_start_block, 10, head)
          THEN /\ pp_pc' = "dispatched"
               /\ UNCHANGED <<pp_calls, Accounts, AccountOperations>>
          ELSE IF "accounts_light" \notin DOMAIN batch_items
          THEN \* KeyError on the empty merge
               /\ pp_pc' = "raised"
               /\ UNCHANGED <<pp_calls, Accounts, AccountOperations>>
          ELSE
          LET accounts == batch_items.accounts_light \cup batch_items.accounts
          IN \E rpc_failed1 \in SUBSET accounts, rpc_failed2 \in SUBSET accounts :
               /\ Cardinality(rpc_failed1) <= MaxRpcFailures
               /\ Cardinality(rpc_failed2) <= MaxRpcFailures
               /\ LET failed1 == rpc_failed1 \cup
                          {u \in accounts \ rpc_failed1 :
                              update_account_run(Accounts, u, FALSE, ledger_meta[u],
                                                 TRUE, {}).raised}
                  IN /\ Accounts' = refresh_accounts(
                                        Accounts, accounts \ rpc_failed1, ledger_meta)
                     /\ AccountOperations' =
                            IF thread_multi_raises(failed1, re_raise_errors)
                            THEN AccountOperations
                            ELSE backfill_accounts(AccountOperations,
                                                   accounts \ rpc_failed2, hist_len)
                     /\ pp_calls' =
                            {[fn |-> "update_account", username |-> u,
                              load_extras |-> FALSE, failed |-> u \in failed1] :
                                u \in accounts}
                            \cup
                            IF thread_multi_raises(failed1, re_raise_errors)
                            THEN {}
                            ELSE {[fn |-> "update_account_ops_quick",
                                   username |-> u,
                                   failed |-> u \in rpc_failed2] : u \in accounts}
                     /\ pp_pc' =
                            IF \/ thread_multi_raises(failed1, re_raise_errors)
                               \/ thread_multi_raises(rpc_failed2, re_raise_errors)
                            THEN "raised" ELSE "dispatched"
    /\ UNCHANGED <<notPost, checkpoint, head, pp_batch_size, pp_start_block,
                   pp_results>>

\* variant: the fan-out with re_raise_errors=True
post_processing_dispatch_re_raise == post_processing_fan_out(TRUE)

\* lines 141-167: re_raise_errors=False in both fan-outs
post_processing_dispatch == post_processing_fan_out(FALSE)

\* lines 169-170: the checkpoint moves to the highest block of the batch
post_processing_checkpoint ==
    /\ pp_pc = "dispatched"
    /\ IF pp_results = {}
       THEN \* max() of an empty list: ValueError
            /\ pp_pc' = "raised"
            /\ UNCHANGED checkpoint
       ELSE /\ checkpoint' = set_checkpoint(checkpoint, "post_processing",
                                 Max({d.block_num : d \in pp_results}))
            /\ pp_pc' = "advanced"
    /\ UNCHANGED <<notPost, Accounts, AccountOperations, head, pp_batch_size,
                   pp_start_block, pp_results, pp_batch_items, pp_calls>>

\* ledger head values on both sides of the two recency windows
Heads == {PostBlocks, 20 * 60 * 24, 20 * 60 * 24 * 10}

\* ledger: the head block number grows
ledger_head_advance ==
    /\ \E h \in Heads : h > head /\ head' = h
    /\ UNCHANGED <<notPost, checkpoint, Accounts, AccountOperations, pp_pc,
                   pp_batch_size, pp_start_block, pp_results, pp_batch_items,
                   pp_calls>>

InitPostIdle ==
    /\ head = PostBlocks
    /\ pp_pc = "idle"
    /\ pp_batch_size = PostBatchSize
    /\ pp_start_block = 0
    /\ pp_results = {}
    /\ pp_batch_items = [k \in {} |-> {}]
    /\ pp_calls = {}

----------------------------------------------------------------------------
(* scrape_blockchain: batches of 100 blocks, then the stream *)

\* the chunk size and the threshold of lines 188-189
ChunkSize == 100

\* values of the ledger's last irreversible block number: a short chain, and
\* chains on both sides of the threshold
Libs == (1..MaxHeight) \cup ((ChunkSize + 1)..(ChunkSize + MaxHeight))

\* Python range(a, b)
range(a, b) == [i \in 1..(IF b > a THEN b - a ELSE 0) |-> a + i - 1]

\* lines 218-224
last_block_num(coll) ==
    IF coll = {} THEN 1 ELSE Max({d.block_num : d \in coll})

\* variant: the blocks after the last stored one
missing_after_last(coll, last_irreversible_block_num) ==
    range(last_block_num(coll) + 1, last_irreversible_block_num)

\* line 184
missing_blocks(coll, last_irreversible_block_num) ==
    range(last_block_num(coll), last_irreversible_block_num)

\* s.get_blocks(batch): the blocks of the numbers asked for, in that order
get_blocks(batch, numbered) ==
    [i \in 1..Len(batch) |-> LedgerBlock(batch[i], 0, numbered)]

\* blockchain.stream_from(start_block, full_blocks=True), as far as the
\* irreversible chain reaches when the stream is opened
stream_from(start_block, last_irreversible_block_num, numbered) ==
    get_blocks(range(start_block, last_irreversible_block_num + 1), numbered)

\* lines 182-188
scrape_blockchain_start ==
    /\ sb_pc = "start"
    /\ blk_pc = "idle"
    /\ LET missing == missing_blocks(Blockchain, lib)
       IN /\ sb_missing' = missing
          /\ sb_pc' = IF Len(missing) > ChunkSize THEN "batch" ELSE "stream"
    /\ UNCHANGED <<notChain, blkVars, lib>>

\* lines 189-191: the next chunk is fetched and handed to insert_blocks
scrape_blockchain_batch ==
    /\ sb_pc = "batch"
    /\ blk_pc = "idle"
    /\ sb_missing # <<>>
    /\ \E numbered \in BOOLEAN :
          full_blocks' = get_blocks(take(ChunkSize, sb_missing), numbered)
    /\ sb_missing' = SubSeq(sb_missing, Min2(ChunkSize, Len(sb_missing)) + 1,
                            Len(sb_missing))
    /\ blk_pos' = 1
    /\ blk_pc' = "running"
    /\ UNCHANGED <<notChain, Blockchain, lib, sb_pc>>

\* lines 194-196: the stream is opened and handed to insert_blocks
scrape_blockchain_stream ==
    /\ sb_pc = "stream" \/ (sb_pc = "batch" /\ sb_missing = <<>>)
    /\ blk_pc = "idle"
    /\ \E numbered \in BOOLEAN :
          full_blocks' = stream_from(last_block_num(Blockchain), lib, numbered)
    /\ blk_pos' = 1
    /\ blk_pc' = "running"
    /\ sb_pc' = "streaming"
    /\ UNCHANGED <<notChain, Blockchain, lib, sb_missing>>

\* the open stream yields a block that has become irreversible
scrape_blockchain_stream_next ==
    /\ sb_pc = "streaming"
    /\ blk_pc = "running"
    /\ full_blocks # <<>>
    /\ LET latest == WithBlockNum(full_blocks[Len(full_blocks)]).block_num
       IN /\ latest < lib
          /\ full_blocks' = Append(full_blocks,
                 LedgerBlock(latest + 1, 0,
                             "block_num" \in DOMAIN full_blocks[1]))
    /\ UNCHANGED <<notChain, Blockchain, blk_pos, blk_pc, sbVars>>

\* the process dies, or an exception leaves scrape_blockchain, and it is
\* started again
scrape_blockchain_restart ==
    /\ sb_pc \in {"batch", "stream", "streaming"}
    /\ sb_pc' = "start"
    /\ sb_missing' = <<>>
    /\ full_blocks' = <<>>
    /\ blk_pos' = 1
    /\ blk_pc' = "idle"
    /\ UNCHANGED <<notChain, Blockchain, lib>>

\* ledger: one more block becomes irreversible
ledger_block_irreversible ==
    /\ lib + 1 \in Libs
    /\ lib' = lib + 1
    /\ UNCHANGED <<notChain, blkVars, sb_pc, sb_missing>>

InitChainIdle ==
    /\ lib = 1
    /\ sb_pc = "off"
    /\ sb_missing = <<>>

----------------------------------------------------------------------------
(* run_worker: the restart loop around a stream function *)

\* runner.py 44-49: the workers the pool starts
workers == {"scrape_all_users", "scrape_operations", "scrape_active_posts"}

\* how an invocation of a stream function can end
Outcomes == {"returned", "Exception", "KeyboardInterrupt", "SystemExit"}

\* lines 24-31: the call made for worker_name. scrape_operations takes one
\* argument and is called with two: TypeError at the call, unless an
\* interrupt comes first. The other stream functions may end in any way.
StreamOutcomes(worker_name) ==
    IF worker_name = "scrape_operations"
    THEN {"Exception", "KeyboardInterrupt"}
    ELSE Outcomes

\* variant: the handler lets every exception through
run_worker_except_reraise(outcome) ==
    IF outcome = "returned" THEN "sleep" ELSE "exited"

\* lines 32-39: where the loop goes once the invocation has ended
run_worker_except(outcome) ==
    IF outcome \in {"KeyboardInterrupt", "SystemExit"}
    THEN "exited"     \* exit("Quitting...")
    ELSE "sleep"      \* printed, or nothing raised: on to time.sleep(5)

\* lines 22-31: the top of the loop, the stream function is invoked
run_worker_invoke(w) ==
    /\ rw_pc[w] = "loop"
    /\ rw_pc' = [rw_pc EXCEPT ![w] = "running"]
    /\ rw_invoked' = [rw_invoked EXCEPT ![w] = Min2(@ + 1, MaxInvocations)]
    /\ UNCHANGED <<notWorker, rw_outcome>>

\* lines 23-36: the invocation ends and the try statement deals with it
run_worker_handle(w) ==
    /\ rw_pc[w] = "running"
    /\ \E outcome \in StreamOutcomes(w) :
          /\ rw_outcome' = [rw_outcome EXCEPT ![w] = outcome]
          /\ rw_pc' = [rw_pc EXCEPT ![w] = run_worker_except(outcome)]
    /\ UNCHANGED <<notWorker, rw_invoked>>

\* line 39: time.sleep(5) is over, back to the top of the loop
run_worker_sleep(w) ==
    /\ rw_pc[w] = "sleep"
    /\ rw_pc' = [rw_pc EXCEPT ![w] = "loop"]
    /\ UNCHANGED <<notWorker, rw_outcome, rw_invoked>>

\* line 39: an interrupt arrives during time.sleep(5), outside the try
run_worker_interrupt(w) ==
    /\ rw_pc[w] = "sleep"
    /\ rw_outcome' = [rw_outcome EXCEPT ![w] = "KeyboardInterrupt"]
    /\ rw_pc' = [rw_pc EXCEPT ![w] = "exited"]
    /\ UNCHANGED <<notWorker, rw_invoked>>

InitWorkerIdle ==
    /\ rw_pc = [w \in workers |-> "off"]
    /\ rw_outcome = [w \in workers |-> "none"]
    /\ rw_invoked = [w \in workers |-> 0]

----------------------------------------------------------------------------
(* Specification: one ingestor with crashes and restarts *)

InitOpsCommon ==
    /\ InitBlocksIdle
    /\ InitAccountsIdle
    /\ InitPostIdle
    /\ InitWorkerIdle
    /\ InitClassifyIdle
    /\ InitChainIdle
    /\ Operations = EmptyBag
    /\ checkpoint = [operations |-> 0, post_processing |-> 0]
    /\ last_block = [p \in Workers |-> 0]
    /\ ing_pos = [p \in Workers |-> 1]
    /\ last_insert = [p \in Workers |-> "none"]

InitOps ==
    /\ InitOpsCommon
    /\ \E counts \in [1..MaxBlock -> 0..MaxOpsPerBlock] :
          chain = FlattenBlocks(counts, 1)
    /\ ing_pc = [p \in Workers |-> IF p = "w1" THEN "start" ELSE "off"]

NextOps ==
    \/ scrape_operations_start("w1")
    \/ scrape_operations_insert("w1")
    \/ scrape_operations_checkpoint("w1")
    \/ scrape_operations_crash("w1")

SpecOps == InitOps /\ [][NextOps]_vars

(* Specification: two ingestor processes racing on the same store *)

InitRace ==
    /\ InitOpsCommon
    /\ \E counts \in [1..MaxBlock -> 0..MaxOpsPerBlock] :
          /\ \A b \in 1..MaxBlock : b > RaceBlocks => counts[b] = 0
          /\ chain = FlattenBlocks(counts, 1)
    /\ ing_pc = [p \in Workers |-> "start"]

NextRace ==
    \E p \in Workers :
        \/ scrape_operations_start(p)
        \/ scrape_operations_insert(p)
        \/ scrape_operations_checkpoint(p)
        \/ scrape_operations_crash(p)

SpecRace == InitRace /\ [][NextRace]_vars

(* Specification: insert_blocks called on arbitrary lists of ledger blocks *)

InitBlocks ==
    /\ chain = <<>>
    /\ Operations = EmptyBag
    /\ checkpoint = [operations |-> 0, post_processing |-> 0]
    /\ ing_pc = [p \in Workers |-> "off"]
    /\ last_block = [p \in Workers |-> 0]
    /\ ing_pos = [p \in Workers |-> 1]
    /\ last_insert = [p \in Workers |-> "none"]
    /\ InitBlocksIdle
    /\ InitAccountsIdle
    /\ InitPostIdle
    /\ InitWorkerIdle
    /\ InitClassifyIdle
    /\ InitChainIdle

NextBlocks ==
    \/ insert_blocks_call
    \/ insert_blocks_step
    \/ insert_blocks_return
    \/ insert_blocks_unwind

SpecBlocks == InitBlocks /\ [][NextBlocks]_vars

(* Specifications: the projector and the backfiller called directly on a
   tracked and on an untracked account, while the ledger moves *)

CalledUsers == {"alice", "carol"}

QuickBatchSizes == {SmallBatch, QuickBatchSize}

InitAccounts ==
    /\ chain = <<>>
    /\ Operations = EmptyBag
    /\ checkpoint = [operations |-> 0, post_processing |-> 0]
    /\ ing_pc = [p \in Workers |-> "off"]
    /\ last_block = [p \in Workers |-> 0]
    /\ ing_pos = [p \in Workers |-> 1]
    /\ last_insert = [p \in Workers |-> "none"]
    /\ InitBlocksIdle
    /\ InitAccountsIdle
    /\ InitPostIdle
    /\ InitWorkerIdle
    /\ InitClassifyIdle
    /\ InitChainIdle

\* update_account alone, profiles changing on the ledger
NextProjector ==
    \E username \in CalledUsers :
        \/ \E load_extras \in BOOLEAN : update_account(username, load_extras)
        \/ ledger_metadata_change(username)

SpecProjector == InitAccounts /\ [][NextProjector]_vars

\* the two backfill modes alone, histories growing on the ledger
NextBackfill ==
    \E username \in CalledUsers :
        \/ update_account_ops(username)
        \/ \E batch_size \in QuickBatchSizes :
              update_account_ops_quick(username, batch_size)
        \/ ledger_history_append(username)

SpecBackfill == InitAccounts /\ [][NextBackfill]_vars

\* all four operations; the untracked account's profile changes freely
NextGuard ==
    \/ \E username \in CalledUsers :
          \/ \E load_extras \in BOOLEAN : update_account(username, load_extras)
          \/ update_account_ops(username)
          \/ \E batch_size \in QuickBatchSizes :
                update_account_ops_quick(username, batch_size)
          \/ ledger_history_append(username)
    \/ ledger_metadata_change("carol")

SpecGuard == InitAccounts /\ [][NextGuard]_vars

(* Specification: post_processing run again and again over a stored feed,
   the ledger head moving on *)

\* the operation a block of the feed may carry
BlockOperations(b) ==
    {[block_num |-> b, op_in_trx |-> 1, type |-> "account_create",
      creator |-> "alice", new_account_name |-> "bob"],
     [block_num |-> b, op_in_trx |-> 1, type |-> "vote", voter |-> "bob"],
     [block_num |-> b, op_in_trx |-> 1, type |-> "transfer",
      from |-> "alice", to |-> "carol"]}

\* feeds with at most one operation in each of the blocks b..PostBlocks
RECURSIVE Feeds(_)
Feeds(b) ==
    IF b > PostBlocks THEN {<<>>}
    ELSE LET rest == Feeds(b + 1)
         IN rest \cup {<<op>> \o r : op \in BlockOperations(b), r \in rest}

PostBatchSizes == {SmallRange, PostBatchSize}

InitPost ==
    /\ chain \in Feeds(1)
    /\ Operations = SetToBag(Range(chain))
    /\ checkpoint = [operations |-> PostBlocks, post_processing |-> 0]
    /\ ing_pc = [p \in Workers |-> "off"]
    /\ last_block = [p \in Workers |-> 0]
    /\ ing_pos = [p \in Workers |-> 1]
    /\ last_insert = [p \in Workers |-> "none"]
    /\ InitBlocksIdle
    /\ Accounts = {}
    /\ AccountOperations = {}
    /\ hist_len = [u \in Users |-> 1]
    /\ ledger_meta \in {[u \in Users |-> IF u = "bob" THEN m ELSE "dict"] :
                            m \in {"dict", "rejected"}}
    /\ call = [fn |-> "none"]
    /\ InitPostIdle
    /\ InitWorkerIdle
    /\ InitClassifyIdle
    /\ InitChainIdle

NextPost ==
    \/ \E batch_size \in PostBatchSizes : post_processing_select(batch_size)
    \/ post_processing_dispatch
    \/ post_processing_checkpoint
    \/ ledger_head_advance

SpecPost == InitPost /\ [][NextPost]_vars

(* Specification: the workers of the pool, each in its run_worker loop *)

InitIngestorIdle ==
    /\ chain = <<>>
    /\ Operations = EmptyBag
    /\ checkpoint = [operations |-> 0, post_processing |-> 0]
    /\ ing_pc = [p \in Workers |-> "off"]
    /\ last_block = [p \in Workers |-> 0]
    /\ ing_pos = [p \in Workers |-> 1]
    /\ last_insert = [p \in Workers |-> "none"]

InitWorker ==
    /\ InitIngestorIdle
    /\ InitBlocksIdle
    /\ InitAccountsIdle
    /\ InitPostIdle
    /\ InitClassifyIdle
    /\ InitChainIdle
    /\ rw_pc = [w \in workers |-> "loop"]
    /\ rw_outcome = [w \in workers |-> "none"]
    /\ rw_invoked = [w \in workers |-> 0]

NextWorker ==
    \E w \in workers :
        \/ run_worker_invoke(w)
        \/ run_worker_handle(w)
        \/ run_worker_sleep(w)
        \/ run_worker_interrupt(w)

\* each worker is a process of its own that keeps being scheduled: its
\* sleep ends and its loop goes round; a stream function may run for ever
SpecWorker ==
    /\ InitWorker
    /\ [][NextWorker]_vars
    /\ \A w \in workers :
          WF_vars(run_worker_invoke(w)) /\ WF_vars(run_worker_sleep(w))

(* Specification: parse_operation applied to one operation of the ledger *)

InitClassify ==
    /\ InitIngestorIdle
    /\ InitBlocksIdle
    /\ InitAccountsIdle
    /\ InitPostIdle
    /\ InitWorkerIdle
    /\ InitChainIdle
    /\ op_in \in OpInputs
    /\ parsed = [called |-> FALSE]

NextClassify == parse_operation_call

SpecClassify == InitClassify /\ [][NextClassify]_vars

(* Specification: scrape_blockchain from an empty store, with crashes and
   restarts, on a ledger of contiguous blocks *)

InitChain ==
    /\ InitIngestorIdle
    /\ InitAccountsIdle
    /\ InitPostIdle
    /\ InitWorkerIdle
    /\ InitClassifyIdle
    /\ InitBlocksIdle
    /\ lib \in {1, ChunkSize + 1}
    /\ sb_pc = "start"
    /\ sb_missing = <<>>

NextChain ==
    \/ scrape_blockchain_start
    \/ scrape_blockchain_batch
    \/ scrape_blockchain_stream
    \/ scrape_blockchain_stream_next
    \/ scrape_blockchain_restart
    \/ insert_blocks_step
    \/ insert_blocks_return
    \/ ledger_block_irreversible

SpecChain == InitChain /\ [][NextChain]_vars

(* Specification: scrape_operations and post_processing as two processes
   on the same Operations collection *)

InitInterleave ==
    /\ InitOpsCommon
    /\ \E counts \in [1..MaxBlock -> 0..MaxOpsPerBlock] :
          /\ \A b \in 1..MaxBlock : b > RaceBlocks => counts[b] = 0
          /\ chain = FlattenBlocks(counts, 1)
    /\ ing_pc = [p \in Workers |-> IF p = "w1" THEN "start" ELSE "off"]

NextInterleave ==
    \/ scrape_operations_start("w1")
    \/ scrape_operations_insert("w1")
    \/ scrape_operations_checkpoint("w1")
    \/ scrape_operations_crash("w1")
    \/ \E batch_size \in PostBatchSizes : post_processing_select(batch_size)
    \/ post_processing_dispatch
    \/ post_processing_checkpoint

SpecInterleave == InitInterleave /\ [][NextInterleave]_vars

----------------------------------------------------------------------------
(* Claims about scrape_operations *)

\* C1: whenever the 'operations' checkpoint holds c, every operation of the
\* feed in a block b <= c (the cursor starts at 0) is already stored in
\* Operations, whatever the crash and restart points.
C1_CheckpointBehindStore ==
    \A i \in 1..Len(chain) :
        chain[i].block_num <= get_checkpoint(checkpoint, "operations")
            => BagIn(chain[i], Operations)

\* a restarted run is re-inserting stored operations below a moved checkpoint
C1_Witness ==
    /\ get_checkpoint(checkpoint, "operations") >= 2
    /\ last_insert["w1"] = "duplicate"
    /\ ing_pc["w1"] = "check"
    /\ \E i \in 1..Len(chain) :
          chain[i].block_num <= get_checkpoint(checkpoint, "operations")

\* C2: an operation inserted a second time (restart or racing ingestor) is
\* stored exactly once, the duplicate rejection does not raise, and the
\* ingestor goes on with the stream.
C2_IdempotentIngestion ==
    /\ \A d \in BagToSet(Operations) :
          /\ CopiesIn(d, Operations) = 1
          /\ \A e \in BagToSet(Operations) : OpKey(e) = OpKey(d) => e = d
    /\ \A p \in Workers :
          last_insert[p] = "duplicate" => ing_pc[p] \in {"check", "loop", "start"}

\* both ingestors met a duplicate and one has moved on to a later operation
C2_Witness ==
    /\ last_insert["w1"] = "duplicate"
    /\ last_insert["w2"] = "duplicate"
    /\ ing_pc["w1"] = "loop"
    /\ ing_pos["w1"] > 2

----------------------------------------------------------------------------
(* Claims about insert_blocks *)

\* the block in hand has block_num > 1 and its previous is not stored
MissingPrevious ==
    /\ blk_pos <= Len(full_blocks)
    /\ WithBlockNum(full_blocks[blk_pos]).block_num > 1
    /\ ~block_id_exists(Blockchain, full_blocks[blk_pos].previous)

\* C3: a block with block_num > 1 whose previous matches no stored block_id
\* makes insert_blocks raise; that block is not stored, nothing is stored by
\* the call afterwards, and the blocks of the input before it are stored.
C3_ChainContinuity ==
    /\ [](blk_pc = "raised" =>
            /\ MissingPrevious
            /\ ~block_id_exists(Blockchain, full_blocks[blk_pos].block_id)
            /\ \A j \in 1..(blk_pos - 1) :
                  block_id_exists(Blockchain, full_blocks[j].block_id))
    /\ [][ /\ (blk_pc = "running" /\ MissingPrevious)
               => (blk_pc' = "raised" /\ Blockchain' = Blockchain)
           /\ blk_pc = "raised" => Blockchain' = Blockchain ]_vars

\* the second block of an input failed after the first one was stored
C3_Witness ==
    /\ blk_pc = "raised"
    /\ blk_pos = 2
    /\ Len(full_blocks) = 2
    /\ Blockchain # {}

----------------------------------------------------------------------------
(* Claims about the projector and the backfiller *)

StoredIndices(username) ==
    {d.index : d \in {e \in AccountOperations : e.account = username}}

\* C4, as claimed: with stored high-water index h, update_account_ops_quick
\* attempts an insert exactly for the events with index > h and stops at the
\* event of index h without attempting it.
C4_StopsAtHighWater ==
    [][\A username \in myAccounts, batch_size \in QuickBatchSizes :
          (update_account_ops_quick(username, batch_size)
              /\ StoredIndices(username) # {})
          => LET h == Max(StoredIndices(username))
             IN /\ Range(call'.attempted)
                      = {i \in 0..(hist_len[username] - 1) : i > h}
                /\ call'.returned_at = h]_vars

\* C4, amended: among the first batch_size events of the latest-first
\* stream, an insert is attempted exactly for those with index >= h (h = 0
\* when nothing is stored), and the loop stops at the first event with
\* index < h without attempting it.
C4_StopsBelowHighWater ==
    [][\A username \in myAccounts, batch_size \in QuickBatchSizes :
          update_account_ops_quick(username, batch_size)
          => LET h == IF StoredIndices(username) = {} THEN 0
                      ELSE Max(StoredIndices(username))
                 batch == {i \in 0..(hist_len[username] - 1) :
                              i >= hist_len[username] - batch_size}
                 below == {i \in batch : i < h}
             IN /\ Range(call'.attempted) = {i \in batch : i >= h}
                /\ call'.returned_at = IF below = {} THEN -1 ELSE Max(below)
       ]_vars

\* a quick backfill over a stored high-water mark that re-tried the mark
\* itself and stopped at the event below it
C4_Witness ==
    /\ call.fn = "update_account_ops_quick"
    /\ call.username \in myAccounts
    /\ Len(call.attempted) >= 2
    /\ call.returned_at >= 0
    /\ call.returned_at + 1 = call.attempted[Len(call.attempted)]

\* C8: on an account outside the tracked set, update_account (light or
\* full), update_account_ops and update_account_ops_quick leave Accounts and
\* AccountOperations as they are, whatever the ledger holds for it.
C8_TrackedGuard ==
    [][\A username \in Users \ myAccounts :
          (\/ \E load_extras \in BOOLEAN : update_account(username, load_extras)
           \/ update_account_ops(username)
           \/ \E batch_size \in QuickBatchSizes :
                 update_account_ops_quick(username, batch_size))
          => UNCHANGED <<Accounts, AccountOperations>>]_vars

\* a full backfill was asked for an untracked account that has history and
\* a profile on the ledger, next to a tracked account with stored data
C8_Witness ==
    /\ call.fn = "update_account_ops"
    /\ call.username \notin myAccounts
    /\ hist_len[call.username] > 0
    /\ ledger_meta[call.username] = "rejected"
    /\ AccountOperations # {}
    /\ \A d \in AccountOperations : d.account \in myAccounts

\* C9, as claimed: when the first write of update_account fails, there is
\* exactly one retry, it writes the same fields with the metadata blanked,
\* in the light and in the full refresh, and its failure is final.
C9_RetryBlanksMetadata ==
    (/\ call.fn = "update_account"
     /\ Len(call.results) >= 1
     /\ call.results[1] = "WriteError")
    => /\ Len(call.writes) = 2
       /\ DOMAIN call.writes[2] = DOMAIN call.writes[1]
       /\ LET attempt == WrittenFields(call.writes[1])
              retry == WrittenFields(call.writes[2])
          IN /\ DOMAIN retry = DOMAIN attempt
             /\ retry.json_metadata = "empty"
             /\ \A f \in DOMAIN attempt \ {"json_metadata"} :
                   retry[f] = attempt[f]
       /\ call.results[2] = "WriteError" => call.raised

----------------------------------------------------------------------------
(* Claims about post_processing *)

\* the stored operations with c < block_num <= c + batch_size
InBatch(c, batch_size) ==
    {d \in BagToSet(Operations) :
        c < d.block_num /\ d.block_num <= c + batch_size}

\* the batch of the run in progress
Selected == InBatch(pp_start_block, pp_batch_size)

\* the accounts named by the obligations of a batch
Obliged(batch) ==
    UNION {parse_operation(op).accounts \cup parse_operation(op).accounts_light :
              op \in batch}

\* C5: with no stored operation in (c, c + batch_size] and c > head - 28800,
\* post_processing returns, the 'post_processing' checkpoint stays c and no
\* account refresh is dispatched.
C5_EmptyRecentBatch ==
    [][/\ \A batch_size \in PostBatchSizes :
             LET c == get_checkpoint(checkpoint, "post_processing")
             IN (/\ post_processing_select(batch_size)
                 /\ InBatch(c, batch_size) = {}
                 /\ c > head - 28800)
                => /\ pp_pc' = "returned"
                   /\ pp_calls' = {}
                   /\ UNCHANGED <<checkpoint, Accounts, AccountOperations>>
       /\ pp_pc = "returned"
             => /\ pp_calls' = {}
                /\ UNCHANGED <<checkpoint, Accounts, AccountOperations>>
      ]_vars

\* a run returned early on a checkpoint that earlier runs had advanced
C5_Witness ==
    /\ pp_pc = "returned"
    /\ pp_start_block > 0
    /\ pp_start_block = get_checkpoint(checkpoint, "post_processing")
    /\ pp_start_block > head - 28800
    /\ Selected = {}

\* C6: on a non-empty batch with c <= head - 288000 no update_account and
\* no update_account_ops_quick call is made, and the checkpoint is set to
\* the highest block_num of the selected operations.
C6_OldBatchNoDispatch ==
    [][/\ (/\ post_processing_dispatch
            /\ Selected # {}
            /\ pp_start_block <= head - 288000)
           => /\ pp_calls' = {}
              /\ pp_pc' = "dispatched"
              /\ UNCHANGED <<checkpoint, Accounts, AccountOperations>>
       /\ (/\ post_processing_checkpoint
            /\ Selected # {}
            /\ pp_calls = {})
           => /\ pp_pc' = "advanced"
              /\ get_checkpoint(checkpoint', "post_processing")
                    = Max({d.block_num : d \in Selected})
              /\ UNCHANGED <<Accounts, AccountOperations>>
      ]_vars

\* an old batch that named accounts moved the checkpoint without any call
C6_Witness ==
    /\ pp_pc = "advanced"
    /\ Selected # {}
    /\ Obliged(Selected) # {}
    /\ pp_start_block <= head - 288000
    /\ pp_calls = {}
    /\ Accounts = {}
    /\ get_checkpoint(checkpoint, "post_processing")
          = Max({d.block_num : d \in Selected})

\* C7, as claimed: every account of the batch's full set (new_account_name
\* of an account_create) that gets a refresh gets the full one.
C7_FullBeforeLight ==
    \A c \in pp_calls :
        (/\ c.fn = "update_account"
         /\ \E op \in Selected :
               /\ op.type = "account_create"
               /\ op.new_account_name = c.username)
        => c.load_extras

\* C10: a failed refresh call leaves the calls for every other account of
\* the set made, post_processing does not raise, and the checkpoint is
\* advanced for the batch.
C10_FailureIsolation ==
    [][/\ (/\ post_processing_dispatch
            /\ Selected # {}
            /\ pp_start_block > head - 288000)
           => /\ pp_pc' = "dispatched"
              /\ \A u \in Obliged(Selected) :
                    \A fn \in {"update_account", "update_account_ops_quick"} :
                        \E c \in pp_calls' : c.fn = fn /\ c.username = u
       /\ (/\ post_processing_checkpoint
            /\ Selected # {}
            /\ \E c \in pp_calls : c.failed)
           => /\ pp_pc' = "advanced"
              /\ get_checkpoint(checkpoint', "post_processing")
                    = Max({d.block_num : d \in Selected})
      ]_vars

\* the checkpoint moved after a fan-out in which one call failed and
\* another account was refreshed
C10_Witness ==
    /\ pp_pc = "advanced"
    /\ \E c \in pp_calls : c.fn = "update_account" /\ c.failed
    /\ \E c \in pp_calls : c.fn = "update_account" /\ ~c.failed
    /\ Accounts # {}
    /\ get_checkpoint(checkpoint, "post_processing") > pp_start_block

----------------------------------------------------------------------------
(* Claims about run_worker *)

\* C11: an invocation that ends with anything but KeyboardInterrupt or
\* SystemExit, a normal return included, leaves the worker in its loop: it
\* sleeps and the stream function is invoked again, however often that has
\* happened before; a worker ends only on KeyboardInterrupt or SystemExit.
C11_RestartLoop ==
    /\ [][\A w \in workers :
             /\ (rw_pc[w] = "running" /\ rw_pc'[w] # "running")
                   => rw_pc'[w] = IF rw_outcome'[w] \in {"KeyboardInterrupt",
                                                         "SystemExit"}
                                  THEN "exited" ELSE "sleep"
             /\ (rw_pc[w] # "exited" /\ rw_pc'[w] = "exited")
                   => rw_outcome'[w] \in {"KeyboardInterrupt", "SystemExit"}
             /\ rw_pc[w] = "exited" => rw_pc'[w] = "exited"]_vars
    /\ \A w \in workers :
          [](rw_pc[w] = "sleep" => <>(rw_pc[w] \in {"running", "exited"}))

\* a worker whose invocations kept failing is running once more, past the
\* count that is kept, next to a worker that returned normally
C11_Witness ==
    /\ rw_pc["scrape_operations"] = "running"
    /\ rw_outcome["scrape_operations"] = "Exception"
    /\ rw_invoked["scrape_operations"] = MaxInvocations
    /\ rw_pc["scrape_all_users"] = "running"
    /\ rw_outcome["scrape_all_users"] = "returned"

----------------------------------------------------------------------------
(* Claims about parse_operation *)

\* C12: for account_create and account_create_with_delegation with
\* creator C and new_account_name N, parse_operation returns light = {C} and
\* full = {N}; for every other type the full set it returns is empty.
C12_CreationOnlyFull ==
    parsed.called =>
        IF op_in.type \in {"account_create", "account_create_with_delegation"}
        THEN /\ ~parsed.raised
             /\ parsed.accounts_light = {op_in.creator}
             /\ parsed.accounts = {op_in.new_account_name}
        ELSE parsed.accounts = {}

\* an account creation with delegation was classified, creator and new
\* account being different accounts
C12_Witness ==
    /\ parsed.called
    /\ op_in.type = "account_create_with_delegation"
    /\ op_in.creator # op_in.new_account_name
    /\ parsed.accounts = {op_in.new_account_name}

\* C13: an operation whose type no rule names gets empty light and full
\* sets and no exception; so do convert, fill_convert_request, interest,
\* limit_order_cancel, limit_order_create, shutdown_witness and
\* witness_update, whose owner is never added.
C13_NoRuleNoObligation ==
    /\ OwnerTypes \cap TableTypes = {}
    /\ (parsed.called /\ op_in.type \notin TableTypes)
          => /\ ~parsed.raised
             /\ parsed.accounts_light = {}
             /\ parsed.accounts = {}
    /\ (parsed.called /\ op_in.type \in OwnerTypes)
          => /\ ~parsed.raised
             /\ op_in.owner \notin parsed.accounts_light

\* a witness_update carrying an owner was classified
C13_Witness ==
    /\ parsed.called
    /\ op_in.type = "witness_update"
    /\ op_in.owner \in Users
    /\ parsed.accounts_light = {}

\* the required-authority accounts of a custom operation, active first
ListedAuths(o) ==
    Get(o, "required_auths", <<>>) \o Get(o, "required_posting_auths", <<>>)

\* C17, as claimed: a custom or custom_json operation that lists at least
\* one required-authority account gets a light set holding exactly the
\* first listed one, also when required_auths is present but empty.
C17_FirstAuthority ==
    (/\ parsed.called
     /\ op_in.type \in {"custom", "custom_json"}
     /\ ListedAuths(op_in) # <<>>)
    => /\ ~parsed.raised
       /\ parsed.accounts_light = {ListedAuths(op_in)[1]}

----------------------------------------------------------------------------
(* Claims about the checkpoints *)

\* C14: the 'operations' checkpoint is written only by the step that
\* follows the insert of an operation whose block_num differs from
\* last_block, the value written is that block_num - 1, and over runs and
\* restarts the checkpoint never decreases.
C14_CheckpointValueMonotone ==
    [][LET operation == chain[ing_pos["w1"]]
           cursor == get_checkpoint(checkpoint, "operations")
           written == get_checkpoint(checkpoint', "operations")
       IN /\ written >= cursor
          /\ checkpoint' # checkpoint
                => /\ ing_pc["w1"] = "check"
                   /\ last_insert["w1"] \in {"inserted", "duplicate"}
                   /\ operation.block_num # last_block["w1"]
          /\ (/\ scrape_operations_checkpoint("w1")
              /\ operation.block_num # last_block["w1"])
                => written = operation.block_num - 1
          /\ (/\ scrape_operations_checkpoint("w1")
              /\ operation.block_num = last_block["w1"])
                => UNCHANGED checkpoint
      ]_vars

\* a restarted run went through stored operations again and wrote the
\* checkpoint it had started from
C14_Witness ==
    /\ ing_pc["w1"] = "loop"
    /\ last_insert["w1"] = "duplicate"
    /\ get_checkpoint(checkpoint, "operations") >= 1
    /\ last_block["w1"] = get_checkpoint(checkpoint, "operations") + 1
    /\ ing_pos["w1"] > 1
    /\ chain[ing_pos["w1"] - 1].block_num = last_block["w1"]

\* C15: on a non-empty batch the 'post_processing' checkpoint is written
\* only once the fan-out is over or was skipped, the value written is the
\* highest block_num of the selected operations, and it is above the
\* previous checkpoint c and at most c + batch_size.
C15_CheckpointAdvance ==
    [][LET c == get_checkpoint(checkpoint, "post_processing")
           written == get_checkpoint(checkpoint', "post_processing")
       IN /\ written # c
                => /\ pp_pc = "dispatched"
                   /\ pp_pc' = "advanced"
                   /\ pp_start_block = c
                   /\ pp_results # {}
          /\ (post_processing_checkpoint /\ pp_results # {})
                => /\ pp_results = InBatch(c, pp_batch_size)
                   /\ written = Max({d.block_num : d \in pp_results})
                   /\ written > c
                   /\ written <= c + pp_batch_size
                   /\ is_recent(c, 10, head)
                         => \A u \in Obliged(pp_results) :
                               \A fn \in {"update_account",
                                          "update_account_ops_quick"} :
                                  \E k \in pp_calls :
                                      k.fn = fn /\ k.username = u
      ]_vars

\* a second batch moved the checkpoint on from where the first one, which
\* was fanned out, had left it
C15_Witness ==
    /\ pp_pc = "advanced"
    /\ pp_start_block > 0
    /\ pp_batch_size = SmallRange
    /\ pp_calls # {}
    /\ get_checkpoint(checkpoint, "post_processing") = pp_start_block + 1

----------------------------------------------------------------------------
(* Claims about scrape_blockchain *)

\* C16: on a ledger of contiguous, ascending blocks, from an empty store and
\* whatever the crash and restart points of scrape_blockchain, every stored
\* block with block_num > 1 has its previous stored, and the assertion of
\* insert_blocks does not fail.
C16_ContinuityAcrossRestarts ==
    /\ {d.previous : d \in {e \in Blockchain : e.block_num > 1}}
          \subseteq {d.block_id : d \in Blockchain}
    /\ blk_pc # "raised"

\* a run restarted in the batch phase has inserted a whole chunk that
\* begins at the last block stored before the restart
C16_Witness ==
    /\ sb_pc = "batch"
    /\ blk_pc = "running"
    /\ Len(full_blocks) = ChunkSize
    /\ blk_pos = ChunkSize + 1
    /\ WithBlockNum(full_blocks[1]).block_num = 2
    /\ sb_missing # <<>>
    /\ Cardinality(Blockchain) = ChunkSize + 1

----------------------------------------------------------------------------
(* Claims about the progress of post_processing *)

\* C18, as claimed: when no stored operation lies in (c, c + batch_size],
\* stored operations lie beyond it and c is outside the 1-day window, the
\* run of post_processing does not raise.
C18_EmptyRangeNoRaise ==
    ~(/\ pp_pc = "raised"
      /\ Selected = {}
      /\ \E d \in BagToSet(Operations) :
            d.block_num > pp_start_block + pp_batch_size
      /\ ~(pp_start_block > head - 28800))

\* C19, as claimed: the 'post_processing' checkpoint never stands at a
\* block b while an operation of a block <= b of the ingestor's feed is
\* not yet stored.
C19_NoOperationSkipped ==
    \A i \in 1..Len(chain) :
        chain[i].block_num <= get_checkpoint(checkpoint, "post_processing")
            => BagIn(chain[i], Operations)

----------------------------------------------------------------------------
(* Claims about the quick backfill *)

\* C20, as claimed: a call of update_account_ops_quick on a tracked account
\* whose stored indices are exactly 0..h leaves them a contiguous range
\* 0..h' with h' the newest index of its history, however many events have
\* come since the last call, and attempts at most batch_size inserts.
C20_QuickBackfillNoGap ==
    [][\A username \in myAccounts, batch_size \in QuickBatchSizes :
          (/\ update_account_ops_quick(username, batch_size)
           /\ StoredIndices(username) # {}
           /\ StoredIndices(username) = 0..Max(StoredIndices(username)))
          => /\ Len(call'.attempted) <= batch_size
             /\ {d.index : d \in {e \in AccountOperations' :
                                     e.account = username}}
                   = 0..(hist_len[username] - 1)]_vars

====
